---- MODULE Spec2Model ----
(***************************************************************************)
(* Statement import pipeline of the budget server: rows normalised by an    *)
(* account handler are reconciled into the transactions table by           *)
(* upsert_transactions (membership query, then bulk insert that ignores     *)
(* conflicts), while users edit the classification fields of stored rows.  *)
(***************************************************************************)
EXTENDS Integers, Sequences, FiniteSets, TLC

\* ------------------------------------------------------------------ bounds
\* Longest batch (DataFrame) handed to one upsert_transactions call.
MaxBatch == 2

\* Longest batch of a call that runs concurrently with other calls.
MaxConcurrentBatch == 1

\* ------------------------------------------------------------ basic values
\* Python None / SQL NULL.
None == "None"

\* Request workers that run imports concurrently.
Procs == {"w1", "w2"}

\* Two persisted accounts; both are SoFi accounts, so the same statement
\* file parses under either of them.
Accounts == {"acct-savings", "acct-checking"}

\* Account.handler_key: resolved through the account's AccountType.
handler_key(a) ==
    CASE a = "acct-savings" -> "sofi-savings"
      [] a = "acct-checking" -> "sofi-checking"
      [] OTHER -> "Other"

\* HandlerKeys: the keys of the registry.
HandlerKeys ==
    {"sofi-savings", "sofi-checking", "co-checking", "co-savings",
     "co-quicksilver", "amex-delta", "chase", "discover", "wf-checking",
     "wf-savings"}

\* BaseHandler: the class attributes a handler inherits.
BaseHandler ==
    [account |-> None, date_format |-> None, col_date |-> None,
     col_concept |-> None, col_amount |-> None, encoding |-> "latin1",
     negate_amount |-> FALSE, csv_names |-> <<>>, csv_header |-> "0"]

\* A handler class: BaseHandler with the attributes the class sets.
Handler(acc, fmt, cdate, cconcept, neg) ==
    [BaseHandler EXCEPT !.account = acc, !.date_format = fmt, !.col_date = cdate,
                        !.col_concept = cconcept, !.col_amount = "Amount",
                        !.negate_amount = neg]

\* The Wells Fargo classes: headerless files, columns named by position.
WellsFargoHandler(acc) ==
    [Handler(acc, "%m/%d/%Y", "Date", "Description", FALSE)
        EXCEPT !.csv_names = <<"Date", "Amount", "*", "_", "Description">>,
               !.csv_header = None]

\* ACCOUNT_HANDLERS: the class attributes of the handler registered under a key.
ACCOUNT_HANDLERS(key) ==
    CASE key = "sofi-savings" ->
            Handler("SoFi Savings", "%Y-%m-%d", "Date", "Description", FALSE)
      [] key = "sofi-checking" ->
            Handler("SoFi Checking", "%Y-%m-%d", "Date", "Description", FALSE)
      [] key = "co-checking" ->
            Handler("CO Checking", "%m/%d/%y", "Transaction Date",
                    "Transaction Description", FALSE)
      [] key = "co-savings" ->
            Handler("CO Savings", "%m/%d/%y", "Transaction Date",
                    "Transaction Description", FALSE)
      [] key = "co-quicksilver" ->
            Handler("Quicksilver", "%Y-%m-%d", "Transaction Date", "Description", FALSE)
      [] key = "amex-delta" ->
            Handler("Delta", "%m/%d/%Y", "Date", "Description", TRUE)
      [] key = "chase" ->
            Handler("Chase", "%m/%d/%Y", "Transaction Date", "Description", FALSE)
      [] key = "discover" ->
            Handler("Discover", "%m/%d/%Y", "Trans. Date", "Description", TRUE)
      [] key = "wf-checking" -> WellsFargoHandler("WF Checking")
      [] key = "wf-savings" -> WellsFargoHandler("WF Savings")

\* Columns of a SoFi statement file.
SoFiColumns == <<"Date", "Description", "Amount">>

\* Data rows a SoFi statement file may contain, as read_csv yields them: a
\* cell per column, amounts as floats held in cents.  A file may hold the
\* same row twice.
RawRows ==
    { <<"2026-01-15", "TRADER JOES", -4550>>,
      <<"2026-01-20", "METRO FARE", -245>> }

\* Values a user assigns to (label, category, additional_labels).
UserChoices ==
    { [label |-> "Essential", category |-> None, additional_labels |-> None],
      [label |-> None, category |-> "Groceries", additional_labels |-> "shared"] }

\* All sequences over S of length 0..n.
SeqsUpTo(S, n) == UNION { [1..k -> S] : k \in 0..n }

\* ------------------------------------------------------------ raw frames
\* A raw DataFrame is [columns |-> names in column order, rows |-> rows],
\* a row being the sequence of its cells in column order.  Cells of the
\* float columns hold cents; a cell of Credit or Debit is <<>> when it is
\* NaN (blank in the file) and <<c>> otherwise; other cells are strings.
NaN == <<>>

\* Columns read_csv infers as float64 and that hold no blank cell.
FloatColumns == {"Amount", "Transaction Amount", "Balance"}

\* Float columns that may hold blank cells.
NullableColumns == {"Credit", "Debit"}

\* Position of column c in a frame's columns.
ColumnIndex(columns, c) == CHOOSE i \in 1..Len(columns) : columns[i] = c

\* The set of a frame's column names.
ColumnSet(columns) == { columns[i] : i \in 1..Len(columns) }

\* row[c]
Cell(columns, row, c) == row[ColumnIndex(columns, c)]

\* df[c] = values: the column is replaced in place when the frame has it
\* and appended as the last column otherwise; values[i] is the cell of row i.
SetColumn(raw_df, c, values) ==
    IF c \in ColumnSet(raw_df.columns)
    THEN [raw_df EXCEPT !.rows =
            [i \in 1..Len(raw_df.rows) |->
                [raw_df.rows[i] EXCEPT ![ColumnIndex(raw_df.columns, c)] = values[i]]]]
    ELSE [columns |-> Append(raw_df.columns, c),
          rows |-> [i \in 1..Len(raw_df.rows) |-> Append(raw_df.rows[i], values[i])]]

\* df.fillna(0): every NaN cell becomes 0.
fillna0(raw_df) ==
    [raw_df EXCEPT !.rows =
        [i \in 1..Len(raw_df.rows) |->
            [j \in 1..Len(raw_df.columns) |->
                IF raw_df.columns[j] \in NullableColumns /\ raw_df.rows[i][j] = NaN
                THEN <<0>> ELSE raw_df.rows[i][j]]]]

\* ------------------------------------------------------------ normalisation
\* str() of a float amount held in cents: -4550 -> "-45.5", -245 -> "-2.45".
FloatStr(c) ==
    LET a == IF c < 0 THEN -c ELSE c
        f == a % 100
        frac == IF f % 10 = 0 THEN ToString(f \div 10)
                ELSE IF f < 10 THEN "0" \o ToString(f) ELSE ToString(f)
    IN  (IF c < 0 THEN "-" ELSE "") \o ToString(a \div 100) \o "." \o frac

\* row.astype(str), one cell of column c.
CellStr(c, v) ==
    IF c \in NullableColumns THEN (IF v = NaN THEN "nan" ELSE FloatStr(v[1]))
    ELSE IF c \in FloatColumns THEN FloatStr(v)
    ELSE v

RECURSIVE Join(_, _)
\* sep.join(strs)
Join(strs, sep) ==
    IF strs = <<>> THEN ""
    ELSE IF Len(strs) = 1 THEN strs[1]
    ELSE strs[1] \o sep \o Join(Tail(strs), sep)

\* hashlib.md5(...).hexdigest(), taken as collision-free: an opaque digest
\* of its argument.
Md5(s) == "md5(" \o s \o ")"

\* BaseHandler._generate_id: MD5 of the underscore-joined cells of the row
\* it is given, in column order.
_generate_id(columns, row) ==
    Md5(Join([j \in 1..Len(columns) |-> CellStr(columns[j], row[j])], "_"))

\* An amount negated for the type 'Debit' only.
CapitalOne_negating_debit_only(df) ==
    SetColumn(df, "Amount",
        [i \in 1..Len(df.rows) |->
            IF Cell(df.columns, df.rows[i], "Transaction Type") = "Debit"
            THEN -Cell(df.columns, df.rows[i], "Transaction Amount")
            ELSE Cell(df.columns, df.rows[i], "Transaction Amount")])

\* CapitalOneCheckingHandler._apply_amount_logic and
\* CapitalOneSavingsHandler._apply_amount_logic (the same code): the frame
\* gets a column Amount, the Transaction Amount when the Transaction Type
\* is 'Credit' and its negation otherwise.
CapitalOne_apply_amount_logic(df) ==
    SetColumn(df, "Amount",
        [i \in 1..Len(df.rows) |->
            IF Cell(df.columns, df.rows[i], "Transaction Type") = "Credit"
            THEN Cell(df.columns, df.rows[i], "Transaction Amount")
            ELSE -Cell(df.columns, df.rows[i], "Transaction Amount")])

\* Debit minus Credit.
Quicksilver_debit_minus_credit(df) ==
    LET filled == fillna0(df)
    IN  SetColumn(filled, "Amount",
            [i \in 1..Len(filled.rows) |->
                Cell(filled.columns, filled.rows[i], "Debit")[1]
                - Cell(filled.columns, filled.rows[i], "Credit")[1]])

\* CapitalOneQuicksilverHandler._apply_amount_logic: blanks become 0, then
\* the frame gets a column Amount, Credit minus Debit.
Quicksilver_apply_amount_logic(df) ==
    LET filled == fillna0(df)
    IN  SetColumn(filled, "Amount",
            [i \in 1..Len(filled.rows) |->
                Cell(filled.columns, filled.rows[i], "Credit")[1]
                - Cell(filled.columns, filled.rows[i], "Debit")[1]])

\* self._apply_amount_logic(raw_df): the method of the handler's class,
\* BaseHandler's being a no-op.
_apply_amount_logic(h, raw_df) ==
    CASE h.account \in {"CO Checking", "CO Savings"} -> CapitalOne_apply_amount_logic(raw_df)
      [] h.account = "Quicksilver" -> Quicksilver_apply_amount_logic(raw_df)
      [] OTHER -> raw_df

\* Columns _apply_amount_logic of the handler's class reads.
AmountLogicColumns(h) ==
    CASE h.account \in {"CO Checking", "CO Savings"} ->
            {"Transaction Amount", "Transaction Type"}
      [] h.account = "Quicksilver" -> {"Credit", "Debit"}
      [] OTHER -> {}

\* ---------------------------------------------------------------- dates
\* int(c) of a decimal digit.
DigitVal(c) == CHOOSE d \in 0..9 : SubSeq("0123456789", d + 1, d + 1) = c

IsDigits(s) ==
    \A i \in 1..Len(s) : \E d \in 0..9 : SubSeq("0123456789", d + 1, d + 1) = SubSeq(s, i, i)

RECURSIVE ParseNat(_)
\* int(s) of a string of decimal digits.
ParseNat(s) ==
    IF s = "" THEN 0
    ELSE 10 * ParseNat(SubSeq(s, 1, Len(s) - 1)) + DigitVal(SubSeq(s, Len(s), Len(s)))

\* Days of month m of year y.
DaysInMonth(y, m) ==
    IF m = 2 THEN (IF y % 4 = 0 /\ (y % 100 # 0 \/ y % 400 = 0) THEN 29 ELSE 28)
    ELSE IF m \in {4, 6, 9, 11} THEN 30 ELSE 31

\* The outcome of a date cell that does not match the format.
ValueError == [raises |-> "ValueError"]

\* A Timestamp at midnight, or ValueError when y-m-d is no calendar date.
Timestamp(y, m, d) ==
    IF m \in 1..12 /\ d \in 1..DaysInMonth(y, m)
    THEN [date |-> <<y, m, d>>, time |-> <<0, 0, 0>>]
    ELSE ValueError

\* pd.to_datetime(s, format=format) for the formats the handlers use, on
\* cells with zero-padded fields: the text of the date cell becomes a
\* Timestamp at midnight; text that does not match the format raises.
to_datetime(s, format) ==
    LET part(a, b) == SubSeq(s, a, b)
        num(a, b) == ParseNat(part(a, b))
    IN  CASE format = "%Y-%m-%d" ->
                IF Len(s) = 10 /\ part(5, 5) = "-" /\ part(8, 8) = "-"
                   /\ IsDigits(part(1, 4) \o part(6, 7) \o part(9, 10))
                THEN Timestamp(num(1, 4), num(6, 7), num(9, 10))
                ELSE ValueError
          [] format = "%m/%d/%Y" ->
                IF Len(s) = 10 /\ part(3, 3) = "/" /\ part(6, 6) = "/"
                   /\ IsDigits(part(1, 2) \o part(4, 5) \o part(7, 10))
                THEN Timestamp(num(7, 10), num(1, 2), num(4, 5))
                ELSE ValueError
          [] format = "%m/%d/%y" ->
                IF Len(s) = 8 /\ part(3, 3) = "/" /\ part(6, 6) = "/"
                   /\ IsDigits(part(1, 2) \o part(4, 5) \o part(7, 8))
                THEN Timestamp((IF num(7, 8) < 69 THEN 2000 ELSE 1900) + num(7, 8),
                               num(1, 2), num(4, 5))
                ELSE ValueError

\* A clean row whose amount is never negated.
CleanRow_without_negation(h, columns, row) ==
    [ID |-> _generate_id(columns, row),
     Date |-> to_datetime(Cell(columns, row, h.col_date), h.date_format),
     Concept |-> Cell(columns, row, h.col_concept),
     Account |-> h.account,
     Amount |-> Cell(columns, row, h.col_amount),
     Label |-> None, Category |-> None, AdditionalLabels |-> None]

\* BaseHandler._read_and_process, one row of clean_df, built from the frame
\* _apply_amount_logic returned.
CleanRow(h, columns, row) ==
    [ID |-> _generate_id(columns, row),
     Date |-> to_datetime(Cell(columns, row, h.col_date), h.date_format),
     Concept |-> Cell(columns, row, h.col_concept),
     Account |-> h.account,
     Amount |-> IF h.negate_amount THEN -Cell(columns, row, h.col_amount)
                ELSE Cell(columns, row, h.col_amount),
     Label |-> None, Category |-> None, AdditionalLabels |-> None]

\* A clean frame that leaves out the rows whose date does not parse.
clean_df_dropping_bad_dates(h, raw_df) ==
    LET all == [i \in 1..Len(raw_df.rows) |-> CleanRow(h, raw_df.columns, raw_df.rows[i])]
    IN  SelectSeq(all, LAMBDA r : r.Date # ValueError)

\* BaseHandler._read_and_process: clean_df, one row per row of the raw frame.
clean_df(h, raw_df) ==
    [i \in 1..Len(raw_df.rows) |-> CleanRow(h, raw_df.columns, raw_df.rows[i])]

\* ---------------------------------------------------------------- process
\* What a handler is handed: a path with no file behind it, a file of zero
\* bytes, text read_csv cannot tokenize, or delimited text with a header
\* line (<<>> for a headerless file) and data rows.
MissingFile == [kind |-> "missing"]
ZeroByteFile == [kind |-> "empty"]
MalformedFile == [kind |-> "malformed"]
CsvFile(header, rows) == [kind |-> "csv", header |-> header, rows |-> rows]

\* An exception leaving a call.
Raises(e) == [raises |-> e]

\* pd.read_csv(file, names=names, header=header): the raw frame, or the
\* exception pandas raises.
read_csv(file, names, header) ==
    CASE file.kind = "missing" -> Raises("FileNotFoundError")
      [] file.kind = "empty" -> Raises("EmptyDataError")
      [] file.kind = "malformed" -> Raises("ParserError")
      [] OTHER -> [columns |-> IF header = None THEN names ELSE file.header,
                   rows |-> file.rows]

\* BaseHandler._read_and_process: the clean frame, or the exception that
\* leaves it (KeyError for a column the handler reads and the frame lacks,
\* ValueError for a date cell that does not match date_format).
_read_and_process(h, file) ==
    LET raw == read_csv(file, h.csv_names, h.csv_header)
    IN  IF "raises" \in DOMAIN raw THEN raw
        ELSE IF ~(AmountLogicColumns(h) \subseteq ColumnSet(raw.columns))
        THEN Raises("KeyError")
        ELSE LET raw_df == _apply_amount_logic(h, raw)
             IN  IF ~({h.col_amount, h.col_date, h.col_concept}
                        \subseteq ColumnSet(raw_df.columns))
                 THEN Raises("KeyError")
                 ELSE LET clean == clean_df(h, raw_df)
                      IN  IF \E i \in 1..Len(clean) : clean[i].Date = ValueError
                          THEN ValueError
                          ELSE [df |-> clean]

\* The value process returns when it has caught an exception.
ReturnsNone == [none |-> TRUE]

\* BaseHandler.process: the clean frame, or None after logging whatever
\* exception _read_and_process raised.
process(h, file) ==
    LET r == _read_and_process(h, file)
    IN  IF "raises" \in DOMAIN r THEN ReturnsNone ELSE r

\* The ids a transaction can have.
Ids == { _generate_id(SoFiColumns, r) : r \in RawRows }

\* ------------------------------------------------------- statement files
\* Longest statement file, in data rows, handed to handler.process.
MaxFileRows == 2

\* A row and the rows that differ from it in the cell of exactly one
\* column, alts[j] being the other cells column j may hold.
OneColumnVariants(base, alts) ==
    {base} \cup UNION { { [base EXCEPT ![j] = v] : v \in alts[j] } : j \in 1..Len(base) }

\* Per format: the header line of its statement files (<<>> when the bank
\* exports no header line) and data rows such files may contain.  Each
\* format has rows that differ in one cell only, a cell of a column the
\* clean frame drops included, and a date cell that is not in the
\* handler's date_format; the Wells Fargo rows include two whose text cells
\* hold an underscore.
StatementLayout(key) ==
    CASE key \in {"sofi-savings", "sofi-checking"} ->
            [header |-> <<"Date", "Description", "Amount", "Balance">>,
             rows |-> OneColumnVariants(
                        <<"2026-01-15", "TRADER JOES", -4550, 100000>>,
                        <<{"2026-01-16", "01/15/26"}, {"METRO FARE"}, {-245}, {95450}>>)]
      [] key \in {"co-checking", "co-savings"} ->
            [header |-> <<"Transaction Date", "Transaction Description",
                          "Transaction Amount", "Transaction Type", "Balance">>,
             rows |-> OneColumnVariants(
                        <<"01/15/26", "TRADER JOES", 4550, "Debit", 100000>>,
                        <<{"01/16/26", "2026-01-15"}, {"MOBILE PAYMENT"}, {115291},
                          {"Credit", "credit"}, {95450}>>)
                      \cup { <<"01/15/26", "MOBILE PAYMENT", 115291, "Credit", 100000>> }]
      [] key = "co-quicksilver" ->
            [header |-> <<"Transaction Date", "Description", "Credit", "Debit">>,
             rows |-> OneColumnVariants(
                        <<"2026-01-15", "TRADER JOES", NaN, <<4550>>>>,
                        <<{"2026-01-16", "pending"}, {"MOBILE PAYMENT"},
                          {<<0>>, <<115291>>}, {NaN, <<245>>}>>)
                      \cup { <<"2026-01-15", "MOBILE PAYMENT", <<115291>>, NaN>> }]
      [] key = "amex-delta" ->
            [header |-> <<"Date", "Description", "Amount">>,
             rows |-> OneColumnVariants(
                        <<"02/04/2026", "METRO FARE", 245>>,
                        <<{"02/05/2026", "2026-02-04"}, {"AMAZON"}, {-4550}>>)]
      [] key = "chase" ->
            [header |-> <<"Transaction Date", "Description", "Amount">>,
             rows |-> OneColumnVariants(
                        <<"02/15/2026", "WHOLEFDS", -6789>>,
                        <<{"02/16/2026", "02/15/26"}, {"AMAZON"}, {2999}>>)]
      [] key = "discover" ->
            [header |-> <<"Trans. Date", "Description", "Amount">>,
             rows |-> OneColumnVariants(
                        <<"02/04/2026", "AMAZON", 2999>>,
                        <<{"02/05/2026", "02/30/2026"}, {"WHOLEFDS"}, {-245}>>)]
      [] key \in {"wf-checking", "wf-savings"} ->
            [header |-> <<>>,
             rows |-> OneColumnVariants(
                        <<"02/15/2026", -4550, "*", "_", "GROCERY STORE">>,
                        <<{"02/16/2026", "2026-02-15"}, {50000}, {"#"}, {}, {"TRANSFER IN"}>>)
                      \cup { <<"02/15/2026", -4550, "*", "REF", "1042_GROCERY STORE">>,
                             <<"02/15/2026", -4550, "*", "REF_1042", "GROCERY STORE">> }]

\* Columns of the file that handler h reads by name.
ColumnsRead(h) == AmountLogicColumns(h) \cup {h.col_date, h.col_concept, h.col_amount}

\* Header lines in which one column the handler reads has another name.
RenamedHeaders(h, header) ==
    { [header EXCEPT ![j] = "WrongColumn"] :
        j \in { i \in 1..Len(header) : header[i] \in ColumnsRead(h) } }

\* Files an import for a format-key account may be handed: no file, no
\* bytes, malformed text, and delimited text of at most MaxFileRows data
\* rows under the bank's header line or a header line with a renamed column.
Files(key) ==
    LET layout == StatementLayout(key)
    IN  {MissingFile, ZeroByteFile, MalformedFile}
        \cup { CsvFile(layout.header, rows) : rows \in SeqsUpTo(layout.rows, MaxFileRows) }
        \cup { CsvFile(header, rows) : header \in RenamedHeaders(ACCOUNT_HANDLERS(key), layout.header),
                                       rows \in SeqsUpTo(layout.rows, 1) }

\* ------------------------------------------------------------------- state
VARIABLES
    store,         \* transactions table: id -> stored row (primary key id)
    store0,        \* the table as it was before the first call started
                   \* (import endpoint and Database.connect: before the
                   \* latest request or with-block)
    pc,            \* per worker: "idle", "queried", "returned", "raised", "rejected"
    df,            \* per worker: the DataFrame of the call in progress / last call
    account,       \* per worker: the Account of that call
    existing_ids,  \* per worker: result of the membership query
    result,        \* per worker: counts returned by the last call
    userSet,       \* id -> classification the user last saved for that row
    repeat,        \* per worker: the call repeats the worker's previous batch
    nreads,        \* per worker: store reads issued by the current call
    nwrites,       \* per worker: store writes issued by the current call
    hkey,          \* handler key of the account a file is normalised for
    file,          \* the file handed to handler.process
    out,           \* what handler.process returned for it
    filename,      \* the name handed to detect_account_type
    detected,      \* what detect_account_type returned for it
    account_types, \* table account_types: name -> handler_key
    accounts,      \* table accounts: account -> name of its account type
    conn,          \* the MySQL connection of Database.connect
    txn,           \* the transactions table as the open transaction sees it
    raised,        \* the exception that left the with-block of Database.connect
    calls          \* the calls made on the connection, in order

vars == <<store, store0, pc, df, account, existing_ids, result, userSet, repeat, nreads, nwrites,
          hkey, file, out, filename, detected, account_types, accounts, conn, txn, raised, calls>>

modelVars == <<account_types, accounts>>

connVars == <<conn, txn, raised, calls>>

\* ------------------------------------------------------------------ inputs
\* DataFrames handler.process yields for account a from files of at most n
\* rows: one clean row per raw row.
FramesUpTo(a, n) ==
    { process(ACCOUNT_HANDLERS(handler_key(a)), CsvFile(SoFiColumns, raws)).df :
        raws \in SeqsUpTo(RawRows, n) }

HandlerFrames(a) == FramesUpTo(a, MaxBatch)

ConcurrentFrames(a) == FramesUpTo(a, MaxConcurrentBatch)

\* A frame whose Label, Category and Additional Labels columns carry values
\* (upsert_transactions accepts such a frame from a direct caller).
WithLabels(d) ==
    [i \in 1..Len(d) |->
        [d[i] EXCEPT !.Label = "Imported", !.Category = "Imported",
                     !.AdditionalLabels = "Imported"]]

\* Frames a direct caller passes to upsert_transactions for account a.
CallerFrames(a) == HandlerFrames(a) \cup { WithLabels(d) : d \in HandlerFrames(a) }

\* ------------------------------------------------------- upsert_transactions
\* df['ID'].tolist()
incoming_ids(d) == { d[i].ID : i \in 1..Len(d) }

\* A membership query that matches no row.
filter_id_in_nothing(tbl, ids) == {}

\* Transaction.objects.filter(id__in=incoming_ids).values_list('id', flat=True)
filter_id_in(tbl, ids) == ids \cap DOMAIN tbl

\* A Transaction that carries the frame's classification columns.
Transaction_keeping_labels(row, a) ==
    [id |-> row.ID, date |-> row.Date.date, concept |-> row.Concept,
     amount |-> row.Amount, label |-> row.Label, category |-> row.Category,
     additional_labels |-> row.AdditionalLabels, account |-> a]

\* Transaction(id=row.ID, date=row.Date.date(), ..., label=None,
\* category=None, additional_labels=None, account=account)
Transaction(row, a) ==
    [id |-> row.ID, date |-> row.Date.date, concept |-> row.Concept,
     amount |-> row.Amount, label |-> None, category |-> None,
     additional_labels |-> None, account |-> a]

\* A loop that stops after the first row the membership query did not return.
new_transactions_first_only(d, existing, a) ==
    LET fresh == SelectSeq(d, LAMBDA row : row.ID \notin existing)
    IN  [i \in 1..(IF fresh = <<>> THEN 0 ELSE 1) |-> Transaction(fresh[i], a)]

\* The loop over df.itertuples(): a Transaction for every row whose ID the
\* membership query did not return, in frame order.
new_transactions(d, existing, a) ==
    LET fresh == SelectSeq(d, LAMBDA row : row.ID \notin existing)
    IN  [i \in 1..Len(fresh) |-> Transaction(fresh[i], a)]

\* The columns of a stored row other than its primary key.
StoredRow(t) ==
    [date |-> t.date, concept |-> t.concept, amount |-> t.amount,
     label |-> t.label, category |-> t.category,
     additional_labels |-> t.additional_labels, account |-> t.account]

RECURSIVE InsertFrom(_, _, _, _)
\* One INSERT of objs[i..]: a row whose id is already a key is skipped when
\* conflicts are ignored, and aborts the whole statement otherwise.
InsertFrom(tbl, objs, i, ignore_conflicts) ==
    IF i > Len(objs) THEN [table |-> tbl, error |-> None]
    ELSE IF objs[i].id \in DOMAIN tbl
         THEN IF ignore_conflicts
              THEN InsertFrom(tbl, objs, i + 1, ignore_conflicts)
              ELSE [table |-> tbl, error |-> "IntegrityError"]
         ELSE InsertFrom(
                [k \in DOMAIN tbl \cup {objs[i].id} |->
                    IF k = objs[i].id THEN StoredRow(objs[i]) ELSE tbl[k]],
                objs, i + 1, ignore_conflicts)

\* A bulk insert without ignore_conflicts: a conflicting id aborts it.
bulk_create_strict(tbl, objs, ignore_conflicts) ==
    LET r == InsertFrom(tbl, objs, 1, FALSE)
    IN  IF r.error = None THEN r ELSE [table |-> tbl, error |-> r.error]

\* A bulk insert that replaces the row of a conflicting id (REPLACE INTO).
bulk_create_replace(tbl, objs, ignore_conflicts) ==
    [table |-> [k \in DOMAIN tbl \cup { objs[i].id : i \in 1..Len(objs) } |->
                  IF \E i \in 1..Len(objs) : objs[i].id = k
                  THEN StoredRow(objs[CHOOSE i \in 1..Len(objs) : objs[i].id = k])
                  ELSE tbl[k]],
     error |-> None]

\* Transaction.objects.bulk_create(objs, ignore_conflicts=...): one atomic
\* statement; on an error nothing of it is kept.
bulk_create(tbl, objs, ignore_conflicts) ==
    LET r == InsertFrom(tbl, objs, 1, ignore_conflicts)
    IN  IF r.error = None THEN r ELSE [table |-> tbl, error |-> r.error]

\* Row-by-row inserts that stop at the error: the first row stays.
insert_until_error(tbl, objs) == InsertFrom(tbl, SubSeq(objs, 1, 1), 1, TRUE).table

\* The table after a bulk_create that failed with a storage error.
bulk_create_failed(tbl, objs) == tbl

\* The all-zero dict of an empty frame.
NoResult == [inserted |-> 0, skipped |-> 0, total |-> 0, error |-> None]

\* Counts that take skipped from the size of the membership query's result.
Counts_by_found(d, new) ==
    LET found == { d[i].ID : i \in 1..Len(d) } \ { new[i].id : i \in 1..Len(new) }
    IN  [inserted |-> Len(new), skipped |-> Cardinality(found), total |-> Len(d),
         error |-> None]

\* Counts that report a batch without new rows as an error.
Counts_rejecting_no_new(d, new) ==
    IF new = <<>>
    THEN [inserted |-> 0, skipped |-> 0, total |-> 0, error |-> "No new transactions."]
    ELSE [inserted |-> Len(new), skipped |-> Len(d) - Len(new), total |-> Len(d),
          error |-> None]

\* The dict upsert_transactions returns.
Counts(d, new) ==
    [inserted |-> Len(new), skipped |-> Len(d) - Len(new), total |-> Len(d),
     error |-> None]

\* upsert_transactions(d, a) run without interruption on table tbl: the table
\* it leaves and the dict it returns.
upsert_transactions(tbl, d, a) ==
    IF d = <<>> THEN [table |-> tbl, result |-> NoResult]
    ELSE LET existing == filter_id_in(tbl, incoming_ids(d))
             new == new_transactions(d, existing, a)
             r == IF new # <<>> THEN bulk_create(tbl, new, TRUE)
                  ELSE [table |-> tbl, error |-> None]
         IN  [table |-> r.table, result |-> Counts(d, new)]

\* FileImportResult of an import that failed with cause e.
ErrorResult(e) == [inserted |-> 0, skipped |-> 0, total |-> 0, error |-> e]

Idle(p) == pc[p] # "queried"

\* ------------------------------------------------------- account detection
\* A map in which a rule for the bare word 'Checking' is listed first.
FILE_DETECTION_MAP_generic_first ==
    << [substring |-> "Checking", handler_key |-> "wf-checking"],
       [substring |-> "360Checking", handler_key |-> "co-checking"],
       [substring |-> "360PerformanceSavings", handler_key |-> "co-savings"],
       [substring |-> "transaction_download", handler_key |-> "co-quicksilver"],
       [substring |-> "SOFI-Checking", handler_key |-> "sofi-checking"],
       [substring |-> "SOFI-Savings", handler_key |-> "sofi-savings"],
       [substring |-> "WF-Savings", handler_key |-> "wf-savings"],
       [substring |-> "activity", handler_key |-> "amex-delta"],
       [substring |-> "Chase", handler_key |-> "chase"],
       [substring |-> "Discover", handler_key |-> "discover"] >>

\* FILE_DETECTION_MAP, in insertion order.
FILE_DETECTION_MAP ==
    << [substring |-> "360Checking", handler_key |-> "co-checking"],
       [substring |-> "360PerformanceSavings", handler_key |-> "co-savings"],
       [substring |-> "transaction_download", handler_key |-> "co-quicksilver"],
       [substring |-> "SOFI-Checking", handler_key |-> "sofi-checking"],
       [substring |-> "SOFI-Savings", handler_key |-> "sofi-savings"],
       [substring |-> "WF-Checking", handler_key |-> "wf-checking"],
       [substring |-> "WF-Savings", handler_key |-> "wf-savings"],
       [substring |-> "activity", handler_key |-> "amex-delta"],
       [substring |-> "Chase", handler_key |-> "chase"],
       [substring |-> "Discover", handler_key |-> "discover"] >>

\* substring in filename
Contains(substring, s) ==
    \E i \in 1..(Len(s) - Len(substring) + 1) :
        SubSeq(s, i, i + Len(substring) - 1) = substring

RECURSIVE detect_from(_, _)
\* The loop of detect_account_type from the i-th item of the map on.
detect_from(fname, i) ==
    IF i > Len(FILE_DETECTION_MAP) THEN None
    ELSE IF Contains(FILE_DETECTION_MAP[i].substring, fname)
         THEN FILE_DETECTION_MAP[i].handler_key
         ELSE detect_from(fname, i + 1)

\* The key of the last rule of the map whose substring occurs in the name.
detect_last_match(fname) ==
    LET hits == { i \in 1..Len(FILE_DETECTION_MAP) :
                    Contains(FILE_DETECTION_MAP[i].substring, fname) }
    IN  IF hits = {} THEN None
        ELSE FILE_DETECTION_MAP[CHOOSE i \in hits : \A j \in hits : j <= i].handler_key

\* detect_account_type(filename)
detect_account_type(fname) == detect_from(fname, 1)

\* Pieces filenames are put together from: the substrings of the map,
\* differently-cased and unrelated words, and nothing.
NameParts ==
    { FILE_DETECTION_MAP[i].substring : i \in 1..Len(FILE_DETECTION_MAP) }
    \cup {"", "sofi-checking", "chase", "unknown_bank", "Checking"}

\* Names of uploaded files, the empty name among them.
Filenames ==
    { p \o a \o b \o x : p \in {"", "2026-"}, a \in NameParts, b \in NameParts,
                         x \in {"", "-123", ".csv"} }

\* ------------------------------------------------------------------ actions
\* The state of a call that has not been made.
NotCalled == [called |-> FALSE]

\* The account types of migration 0003_seed_account_types: name -> handler_key.
SeededAccountTypes ==
    [n \in {"SoFi Savings", "SoFi Checking", "360 Checking", "360 Performance Savings",
            "Quicksilver Credit Card", "Checking", "Savings", "Chase Card",
            "Discover Card", "Delta SkyMiles Card"} |->
        CASE n = "SoFi Savings" -> "sofi-savings"
          [] n = "SoFi Checking" -> "sofi-checking"
          [] n = "360 Checking" -> "co-checking"
          [] n = "360 Performance Savings" -> "co-savings"
          [] n = "Quicksilver Credit Card" -> "co-quicksilver"
          [] n = "Checking" -> "wf-checking"
          [] n = "Savings" -> "wf-savings"
          [] n = "Chase Card" -> "chase"
          [] n = "Discover Card" -> "discover"
          [] n = "Delta SkyMiles Card" -> "amex-delta"]

\* The tables behind the accounts files are imported for: the seeded account
\* types and the type 'Other', and the accounts on them.
Models0 ==
    /\ account_types = [n \in DOMAIN SeededAccountTypes \cup {"Other"} |->
                          IF n = "Other" THEN "Other" ELSE SeededAccountTypes[n]]
    /\ accounts = [a \in {"acct-savings", "acct-checking", "acct-other"} |->
                     CASE a = "acct-savings" -> "SoFi Savings"
                       [] a = "acct-checking" -> "SoFi Checking"
                       [] a = "acct-other" -> "Other"]

\* No connection has been opened.
Conn0 == conn = "none" /\ txn = [k \in {} |-> None] /\ raised = None /\ calls = <<>>

\* No file has been normalised and no filename has been looked at.
Norm0 == hkey = "sofi-savings" /\ file = MissingFile /\ out = NotCalled

Detect0 == filename = "" /\ detected = NotCalled

Workers0 ==
    /\ pc = [p \in Procs |-> "idle"]
    /\ df = [p \in Procs |-> <<>>]
    /\ account = [p \in Procs |-> "acct-savings"]
    /\ existing_ids = [p \in Procs |-> {}]
    /\ result = [p \in Procs |-> NoResult]
    /\ userSet = [k \in {} |-> None]
    /\ repeat = [p \in Procs |-> FALSE]
    /\ nreads = [p \in Procs |-> 0]
    /\ nwrites = [p \in Procs |-> 0]

\* An empty transactions table and idle workers.
Init ==
    /\ Models0
    /\ Conn0
    /\ store = [k \in {} |-> None]
    /\ store0 = store
    /\ Workers0
    /\ Norm0
    /\ Detect0

\* An empty frame that is not returned early and reaches the membership query.
EmptyCall_querying(p, a) ==
    /\ Idle(p)
    /\ pc' = [pc EXCEPT ![p] = "returned"]
    /\ df' = [df EXCEPT ![p] = <<>>]
    /\ account' = [account EXCEPT ![p] = a]
    /\ existing_ids' = [existing_ids EXCEPT ![p] = {}]
    /\ result' = [result EXCEPT ![p] = NoResult]
    /\ repeat' = [repeat EXCEPT ![p] = (pc[p] = "returned" /\ df[p] = <<>>)]
    /\ nreads' = [nreads EXCEPT ![p] = 1]
    /\ nwrites' = [nwrites EXCEPT ![p] = 0]
    /\ UNCHANGED <<modelVars, connVars, hkey, file, out, filename, detected, store, store0, userSet>>

\* upsert_transactions(d, a) with an empty frame: returns at once.
EmptyCall(p, a) ==
    /\ Idle(p)
    /\ pc' = [pc EXCEPT ![p] = "returned"]
    /\ df' = [df EXCEPT ![p] = <<>>]
    /\ account' = [account EXCEPT ![p] = a]
    /\ existing_ids' = [existing_ids EXCEPT ![p] = {}]
    /\ result' = [result EXCEPT ![p] = NoResult]
    /\ repeat' = [repeat EXCEPT ![p] = (pc[p] = "returned" /\ df[p] = <<>>)]
    /\ nreads' = [nreads EXCEPT ![p] = 0]
    /\ nwrites' = [nwrites EXCEPT ![p] = 0]
    /\ UNCHANGED <<modelVars, connVars, hkey, file, out, filename, detected, store, store0, userSet>>

\* A membership lookup made row by row: one store read per frame row.
Query_per_row(p, d, a) ==
    /\ Idle(p)
    /\ d # <<>>
    /\ pc' = [pc EXCEPT ![p] = "queried"]
    /\ df' = [df EXCEPT ![p] = d]
    /\ account' = [account EXCEPT ![p] = a]
    /\ existing_ids' = [existing_ids EXCEPT ![p] = filter_id_in(store, incoming_ids(d))]
    /\ result' = [result EXCEPT ![p] = NoResult]
    /\ repeat' = [repeat EXCEPT ![p] = (pc[p] = "returned" /\ df[p] = d)]
    /\ nreads' = [nreads EXCEPT ![p] = Len(d)]
    /\ nwrites' = [nwrites EXCEPT ![p] = 0]
    /\ UNCHANGED <<modelVars, connVars, hkey, file, out, filename, detected, store, store0, userSet>>

\* upsert_transactions(d, a), first statement: the membership query.
Query(p, d, a) ==
    /\ Idle(p)
    /\ d # <<>>
    /\ pc' = [pc EXCEPT ![p] = "queried"]
    /\ df' = [df EXCEPT ![p] = d]
    /\ account' = [account EXCEPT ![p] = a]
    /\ existing_ids' = [existing_ids EXCEPT ![p] = filter_id_in(store, incoming_ids(d))]
    /\ result' = [result EXCEPT ![p] = NoResult]
    /\ repeat' = [repeat EXCEPT ![p] = (pc[p] = "returned" /\ df[p] = d)]
    /\ nreads' = [nreads EXCEPT ![p] = 1]
    /\ nwrites' = [nwrites EXCEPT ![p] = 0]
    /\ UNCHANGED <<modelVars, connVars, hkey, file, out, filename, detected, store, store0, userSet>>

\* The membership query fails (store unreachable); the exception leaves
\* upsert_transactions and import_transactions reports it.
QueryRaises(p, d, a) ==
    /\ Idle(p)
    /\ d # <<>>
    /\ pc' = [pc EXCEPT ![p] = "raised"]
    /\ df' = [df EXCEPT ![p] = d]
    /\ account' = [account EXCEPT ![p] = a]
    /\ existing_ids' = [existing_ids EXCEPT ![p] = {}]
    /\ result' = [result EXCEPT ![p] = ErrorResult("StorageUnavailable")]
    /\ repeat' = [repeat EXCEPT ![p] = FALSE]
    /\ nreads' = [nreads EXCEPT ![p] = 1]
    /\ nwrites' = [nwrites EXCEPT ![p] = 0]
    /\ UNCHANGED <<modelVars, connVars, hkey, file, out, filename, detected, store, store0, userSet>>

\* upsert_transactions, second statement: bulk insert of the new rows (when
\* there are any), then the counts.
BulkCreate(p) ==
    /\ pc[p] = "queried"
    /\ LET new == new_transactions(df[p], existing_ids[p], account[p])
           r == IF new # <<>> THEN bulk_create(store, new, TRUE)
                ELSE [table |-> store, error |-> None]
       IN  /\ store' = r.table
           /\ pc' = [pc EXCEPT ![p] = IF r.error = None THEN "returned" ELSE "raised"]
           /\ result' = [result EXCEPT ![p] =
                           IF r.error = None THEN Counts(df[p], new)
                           ELSE ErrorResult(r.error)]
           /\ nwrites' = [nwrites EXCEPT ![p] = IF new # <<>> THEN 1 ELSE 0]
    /\ UNCHANGED <<modelVars, connVars, hkey, file, out, filename, detected, store0, df, account, existing_ids, userSet, repeat, nreads>>

\* The bulk insert fails with a storage error.
BulkCreateRaises(p) ==
    /\ pc[p] = "queried"
    /\ LET new == new_transactions(df[p], existing_ids[p], account[p])
       IN  /\ new # <<>>
           /\ store' = bulk_create_failed(store, new)
    /\ pc' = [pc EXCEPT ![p] = "raised"]
    /\ result' = [result EXCEPT ![p] = ErrorResult("StorageUnavailable")]
    /\ nwrites' = [nwrites EXCEPT ![p] = 1]
    /\ UNCHANGED <<modelVars, connVars, hkey, file, out, filename, detected, store0, df, account, existing_ids, userSet, repeat, nreads>>

\* import_transactions when handler.process returns None or an empty frame:
\* an error result, and upsert_transactions is not called.
ImportNoRows(p, a) ==
    /\ Idle(p)
    /\ pc' = [pc EXCEPT ![p] = "rejected"]
    /\ df' = [df EXCEPT ![p] = <<>>]
    /\ account' = [account EXCEPT ![p] = a]
    /\ existing_ids' = [existing_ids EXCEPT ![p] = {}]
    /\ result' = [result EXCEPT ![p] = ErrorResult("File produced no valid transactions.")]
    /\ repeat' = [repeat EXCEPT ![p] = FALSE]
    /\ nreads' = [nreads EXCEPT ![p] = 0]
    /\ nwrites' = [nwrites EXCEPT ![p] = 0]
    /\ UNCHANGED <<modelVars, connVars, hkey, file, out, filename, detected, store, store0, userSet>>

\* A user saves label, category and additional_labels of a stored row.
UserEdit(id, c) ==
    /\ id \in DOMAIN store
    /\ store' = [store EXCEPT ![id].label = c.label, ![id].category = c.category,
                              ![id].additional_labels = c.additional_labels]
    /\ userSet' = [k \in DOMAIN userSet \cup {id} |-> IF k = id THEN c ELSE userSet[k]]
    /\ UNCHANGED <<modelVars, connVars, hkey, file, out, filename, detected, store0, pc, df, account, existing_ids, result, repeat, nreads, nwrites>>

\* handler.process(file) of the handler registered under hkey.
Process ==
    /\ out = NotCalled
    /\ out' = process(ACCOUNT_HANDLERS(hkey), file)
    /\ UNCHANGED <<modelVars, connVars, store, store0, pc, df, account, existing_ids, result, userSet,
                   repeat, nreads, nwrites, hkey, file, filename, detected>>

\* detect_account_type(filename)
Detect ==
    /\ detected = NotCalled
    /\ detected' = [handler_key |-> detect_account_type(filename)]
    /\ UNCHANGED <<modelVars, connVars, store, store0, pc, df, account, existing_ids, result, userSet,
                   repeat, nreads, nwrites, hkey, file, out, filename>>

\* ----------------------------------------------------------- specifications
\* Concurrent imports of handler-produced frames, interleaved with user edits.
Next ==
    \/ \E p \in Procs, a \in Accounts : EmptyCall(p, a)
    \/ \E p \in Procs, a \in Accounts : \E d \in ConcurrentFrames(a) : Query(p, d, a)
    \/ \E p \in Procs : BulkCreate(p)
    \/ \E id \in Ids, c \in UserChoices : UserEdit(id, c)

Spec == Init /\ [][Next]_vars

\* One caller at a time, any frame a direct caller may pass.
SeqNext ==
    \/ \E a \in Accounts : EmptyCall("w1", a)
    \/ \E a \in Accounts : \E d \in CallerFrames(a) : Query("w1", d, a)
    \/ \E a \in Accounts : \E d \in CallerFrames(a) : QueryRaises("w1", d, a)
    \/ BulkCreate("w1")
    \/ BulkCreateRaises("w1")
    \/ \E a \in Accounts : ImportNoRows("w1", a)
    \/ \E id \in Ids, c \in UserChoices : UserEdit(id, c)

SeqSpec == Init /\ [][SeqNext]_vars

\* Tables an earlier import of one file leaves behind.
InitialStores ==
    UNION { { upsert_transactions([k \in {} |-> None], d, a).table :
                d \in HandlerFrames(a) } : a \in Accounts }

InitRace ==
    /\ Models0
    /\ Conn0
    /\ store \in InitialStores
    /\ store0 = store
    /\ Workers0
    /\ Norm0
    /\ Detect0

\* Each worker makes one call; the calls run concurrently.
RaceNext ==
    \/ \E p \in Procs, a \in Accounts : \E d \in HandlerFrames(a) :
          pc[p] = "idle" /\ Query(p, d, a)
    \/ \E p \in Procs : BulkCreate(p)

RaceSpec == InitRace /\ [][RaceNext]_vars

\* One file of one format is normalised.
InitNorm ==
    /\ Models0
    /\ Conn0
    /\ store = [k \in {} |-> None]
    /\ store0 = store
    /\ Workers0
    /\ Detect0
    /\ hkey \in HandlerKeys
    /\ file \in Files(hkey)
    /\ out = NotCalled

NormNext == Process

NormSpec == InitNorm /\ [][NormNext]_vars

\* The account type of one uploaded file is detected from its name.
InitDetect ==
    /\ Models0
    /\ Conn0
    /\ store = [k \in {} |-> None]
    /\ store0 = store
    /\ Workers0
    /\ Norm0
    /\ filename \in Filenames
    /\ detected = NotCalled

DetectNext == Detect

DetectSpec == InitDetect /\ [][DetectNext]_vars

\* ---------------------------------------------------------- import endpoint
\* Longest uploaded file, in data rows.
MaxUploadRows == 2

\* Accounts a file is uploaded for: one whose account type has a registered
\* handler key, one whose account type carries the key 'Other'.
ImportAccounts == {"acct-savings", "acct-other"}

\* Data rows of an uploaded Chase statement.
ChaseRows ==
    { <<"02/15/2026", "WHOLEFDS", -6789>>,
      <<"02/16/2026", "AMAZON", 2999>> }

\* Uploaded files: whatever the user picks, whichever account it is sent for.
UploadedFiles ==
    {ZeroByteFile, MalformedFile}
    \cup { CsvFile(SoFiColumns, rows) : rows \in SeqsUpTo(RawRows, MaxUploadRows) }
    \cup { CsvFile(<<"Transaction Date", "Description", "Amount">>, rows) :
             rows \in SeqsUpTo(ChaseRows, MaxUploadRows) }

\* file.name of an upload: a name the detection map resolves to SoFi Savings
\* and one it resolves to Chase.
UploadedNames == {"SOFI-Savings-0126.csv", "Chase1234_Activity.csv"}

\* FileImportResult(filename=..., inserted=..., skipped=..., total=..., error=...)
FileImportResult(fname, counts) ==
    [filename |-> fname, inserted |-> counts.inserted, skipped |-> counts.skipped,
     total |-> counts.total, error |-> counts.error]

\* f'No handler found for account type: {account.handler_key}'
NoHandlerFound(key) == "No handler found for account type: " \o key

\* handler.process returned None or an empty frame.
NoValidRows(o) == o = ReturnsNone \/ o.df = <<>>

\* An import that picks the handler the file's name is detected as, and the
\* account's handler only for a name that is not detected.
import_transactions_by_filename(tbl, a, f, fname) ==
    LET named == detect_account_type(fname)
        key == IF named = None THEN handler_key(a) ELSE named
    IN  IF key \notin HandlerKeys
        THEN [table |-> tbl, out |-> NotCalled, df |-> <<>>, pc |-> "rejected",
              result |-> FileImportResult(fname, ErrorResult(NoHandlerFound(key)))]
        ELSE LET o == process(ACCOUNT_HANDLERS(key), f)
             IN  IF NoValidRows(o)
                 THEN [table |-> tbl, out |-> o, df |-> <<>>, pc |-> "rejected",
                       result |-> FileImportResult(fname,
                                    ErrorResult("File produced no valid transactions."))]
                 ELSE LET u == upsert_transactions(tbl, o.df, a)
                      IN  [table |-> u.table, out |-> o, df |-> o.df, pc |-> "returned",
                           result |-> FileImportResult(fname, u.result)]

\* An import that reports a missing handler with the message of a file
\* without valid rows.
import_transactions_missing_as_no_rows(tbl, a, f, fname) ==
    LET r == import_transactions_by_filename(tbl, a, f, "")
    IN  [r EXCEPT !.result =
            [filename |-> fname, inserted |-> r.result.inserted,
             skipped |-> r.result.skipped, total |-> r.result.total,
             error |-> IF handler_key(a) \in HandlerKeys THEN r.result.error
                       ELSE "File produced no valid transactions."]]

\* import_transactions(request, account_id, file) on table tbl when nothing
\* raises: the handler is ACCOUNT_HANDLERS.get(account.handler_key); without
\* one, and for a file without valid rows, an error result is returned
\* before anything touches the store; otherwise the counts of
\* upsert_transactions.
import_transactions(tbl, a, f, fname) ==
    LET key == handler_key(a)
    IN  IF key \notin HandlerKeys
        THEN [table |-> tbl, out |-> NotCalled, df |-> <<>>, pc |-> "rejected",
              result |-> FileImportResult(fname, ErrorResult(NoHandlerFound(key)))]
        ELSE LET o == process(ACCOUNT_HANDLERS(key), f)
             IN  IF NoValidRows(o)
                 THEN [table |-> tbl, out |-> o, df |-> <<>>, pc |-> "rejected",
                       result |-> FileImportResult(fname,
                                    ErrorResult("File produced no valid transactions."))]
                 ELSE LET u == upsert_transactions(tbl, o.df, a)
                      IN  [table |-> u.table, out |-> o, df |-> o.df, pc |-> "returned",
                           result |-> FileImportResult(fname, u.result)]

\* One request to the import endpoint, served without an exception.
Import(p, a, f, fname) ==
    LET r == import_transactions(store, a, f, fname)
    IN  /\ store' = r.table
        /\ pc' = [pc EXCEPT ![p] = r.pc]
        /\ df' = [df EXCEPT ![p] = r.df]
        /\ account' = [account EXCEPT ![p] = a]
        /\ result' = [result EXCEPT ![p] = r.result]
        /\ hkey' = handler_key(a)
        /\ file' = f
        /\ out' = r.out
        /\ filename' = fname
        /\ store0' = store
        /\ UNCHANGED <<modelVars, connVars, existing_ids, userSet, repeat, nreads, nwrites, detected>>

\* A FileImportResult whose cause is the exception's text.
ExceptionResult(fname, e) == [filename |-> fname, inserted |-> 0, skipped |-> 0,
                              total |-> 0, error |-> e]

\* The table an import leaves when the exception was raised while
\* bulk_create wrote the first of the new rows.
import_raised_keeping_written(tbl, d, a) ==
    insert_until_error(tbl, new_transactions(d, filter_id_in(tbl, incoming_ids(d)), a))

\* The table an import leaves when an exception was raised inside the try
\* block: file.read() and the membership query write nothing, and a failed
\* bulk_create keeps nothing.
import_raised(tbl, d, a) ==
    IF d = <<>> THEN tbl
    ELSE bulk_create_failed(tbl, new_transactions(d, filter_id_in(tbl, incoming_ids(d)), a))

\* One request in which file.read() ("read"), the membership query
\* ("query") or the bulk insert ("bulk_create") raises: the except branch
\* returns the exception's text with zero counts.
ImportRaises(p, a, f, fname, at) ==
    LET key == handler_key(a)
        o == IF at = "read" THEN NotCalled ELSE process(ACCOUNT_HANDLERS(key), f)
        d == IF at = "read" THEN <<>> ELSE o.df
    IN  /\ key \in HandlerKeys
        /\ at # "read" => ~NoValidRows(o)
        /\ at = "bulk_create" =>
              new_transactions(d, filter_id_in(store, incoming_ids(d)), a) # <<>>
        /\ store' = IF at = "bulk_create" THEN import_raised(store, d, a) ELSE store
        /\ pc' = [pc EXCEPT ![p] = "raised"]
        /\ df' = [df EXCEPT ![p] = d]
        /\ account' = [account EXCEPT ![p] = a]
        /\ result' = [result EXCEPT ![p] =
                        ExceptionResult(fname, IF at = "read" THEN "UploadInterrupted"
                                               ELSE "StorageUnavailable")]
        /\ hkey' = key
        /\ file' = f
        /\ out' = o
        /\ filename' = fname
        /\ store0' = store
        /\ UNCHANGED <<modelVars, connVars, existing_ids, userSet, repeat, nreads, nwrites, detected>>

\* Requests to the import endpoint, one after another.
ImportNext ==
    \/ \E a \in ImportAccounts, f \in UploadedFiles, fname \in UploadedNames :
          Import("w1", a, f, fname)
    \/ \E a \in ImportAccounts, f \in UploadedFiles, fname \in UploadedNames,
          at \in {"read", "query", "bulk_create"} : ImportRaises("w1", a, f, fname, at)

ImportSpec == Init /\ [][ImportNext]_vars

\* ------------------------------------------------- account types and accounts
\* Names given to account types created after the seed.
NewTypeNames == {"Other", "Test Type"}

\* handler_key values passed when an account type is created: registered
\* keys and other strings.
NewTypeKeys == {"sofi-savings", "Other", "some-other-key"}

\* Accounts that may be created.
NewAccounts == {"acct-savings", "acct-chase", "acct-other"}

\* Account types the created accounts are put on.
TypesUsed == {"SoFi Savings", "Chase Card"} \cup NewTypeNames

\* AccountType.objects.create(name=n, handler_key=k, bank=bank): the row is
\* inserted unless (bank, name) or handler_key is taken (IntegrityError);
\* save() does not check the key against HANDLER_CHOICES.
create_account_type(types, n, k) ==
    IF n \in DOMAIN types \/ (\E m \in DOMAIN types : types[m] = k)
    THEN types
    ELSE [m \in DOMAIN types \cup {n} |-> IF m = n THEN k ELSE types[m]]

\* AccountType.objects.create(...)
CreateAccountType(n, k) ==
    /\ account_types' = create_account_type(account_types, n, k)
    /\ UNCHANGED <<accounts, connVars, store, store0, pc, df, account, existing_ids, result,
                   userSet, repeat, nreads, nwrites, hkey, file, out, filename, detected>>

\* Account.objects.create(name=a, account_type=t, household=household): the
\* foreign key has to reference a stored account type.
CreateAccount(a, t) ==
    /\ a \notin DOMAIN accounts
    /\ t \in DOMAIN account_types
    /\ accounts' = [b \in DOMAIN accounts \cup {a} |-> IF b = a THEN t ELSE accounts[b]]
    /\ UNCHANGED <<account_types, connVars, store, store0, pc, df, account, existing_ids,
                   result, userSet, repeat, nreads, nwrites, hkey, file, out, filename,
                   detected>>

\* Account.handler_key of a stored account.
Account_handler_key(a) == account_types[accounts[a]]

\* The tables after the migrations: the seeded account types, no account.
InitModels ==
    /\ store = [k \in {} |-> None]
    /\ store0 = store
    /\ Workers0
    /\ Norm0
    /\ Detect0
    /\ Conn0
    /\ account_types = SeededAccountTypes
    /\ accounts = [a \in {} |-> None]

ModelsNext ==
    \/ \E n \in NewTypeNames, k \in NewTypeKeys : CreateAccountType(n, k)
    \/ \E a \in NewAccounts, t \in TypesUsed : CreateAccount(a, t)

ModelsSpec == InitModels /\ [][ModelsNext]_vars

\* ------------------------------------------------------------ Database (MySQL)
\* Database.REQUIRED_COLUMNS
REQUIRED_COLUMNS == {"id", "date", "concept", "account", "amount"}

\* The columns of a frame (the clean frame's columns when it has no row).
FrameColumns(d) ==
    IF d = <<>>
    THEN {"ID", "Date", "Concept", "Account", "Amount", "Label", "Category", "AdditionalLabels"}
    ELSE DOMAIN d[1]

\* df.columns.str.lower().str.replace(' ', '_'), one column name.
LowerColumn(c) ==
    CASE c = "ID" -> "id"
      [] c = "Date" -> "date"
      [] c = "Concept" -> "concept"
      [] c = "Account" -> "account"
      [] c = "Amount" -> "amount"
      [] c = "Label" -> "label"
      [] c = "Category" -> "category"
      [] c = "AdditionalLabels" -> "additional_labels"

\* Database._validate_dataframe: the required columns the frame lacks.
MissingColumns(d) == REQUIRED_COLUMNS \ { LowerColumn(c) : c \in FrameColumns(d) }

\* Database._prepare_records: one dict per frame row, under the lowercased
\* column names, dates as date objects; label, category and
\* additional_labels are None only where the frame lacks the column.
_prepare_records(d) ==
    [i \in 1..Len(d) |->
        [id |-> d[i].ID, date |-> d[i].Date.date, concept |-> d[i].Concept,
         account |-> d[i].Account, amount |-> d[i].Amount,
         label |-> IF "Label" \in FrameColumns(d) THEN d[i].Label ELSE None,
         category |-> IF "Category" \in FrameColumns(d) THEN d[i].Category ELSE None,
         additional_labels |-> IF "AdditionalLabels" \in FrameColumns(d)
                               THEN d[i].AdditionalLabels ELSE None]]

\* Database.upsert_transactions(df) on the table tbl the transaction sees:
\* ValueError for a frame without a required column; zero counts for a
\* frame without rows; otherwise one INSERT IGNORE of all records, inserted
\* being the statement's row count.
Database_upsert_transactions(tbl, d) ==
    IF MissingColumns(d) # {} THEN [raises |-> "ValueError", table |-> tbl]
    ELSE LET records == _prepare_records(d)
         IN  IF records = <<>>
             THEN [table |-> tbl, result |-> [inserted |-> 0, skipped |-> 0, total |-> 0]]
             ELSE LET after == InsertFrom(tbl, records, 1, TRUE).table
                      rowcount == Cardinality(DOMAIN after) - Cardinality(DOMAIN tbl)
                  IN  [table |-> after,
                       result |-> [inserted |-> rowcount,
                                   skipped |-> Len(records) - rowcount,
                                   total |-> Len(records)]]

\* A frame without the Account column.
WithoutAccount(d) ==
    [i \in 1..Len(d) |->
        [ID |-> d[i].ID, Date |-> d[i].Date, Concept |-> d[i].Concept,
         Amount |-> d[i].Amount, Label |-> d[i].Label, Category |-> d[i].Category,
         AdditionalLabels |-> d[i].AdditionalLabels]]

\* Frames handed to Database.upsert_transactions: clean frames of the SoFi
\* Savings handler, with and without classification values, and such frames
\* without the Account column.
DatabaseFrames ==
    CallerFrames("acct-savings")
    \cup { WithoutAccount(d) : d \in HandlerFrames("acct-savings") \ {<<>>} }

\* Exceptions a statement of the with-block may raise: a database error, any
\* other Exception, and a BaseException that is no Exception.
BodyExceptions == {"mysql.connector.Error", "KeyError", "KeyboardInterrupt"}

\* Exit code that commits in the finally clause, whatever happened.
connect_exit_always_committing(exc, connected) ==
    IF connected THEN <<"commit", "close">> ELSE <<>>

\* Database.connect after the yield: the calls made on the connection when
\* the body has finished (exc = None) or raised exc, the connection being
\* connected or not.  commit follows a body that finished; the branch for
\* mysql.connector.Error only logs and re-raises; the branch for any other
\* Exception rolls back; the finally clause closes.
connect_exit(exc, connected) ==
    (IF exc = None THEN <<"commit">>
     ELSE IF exc = "mysql.connector.Error" THEN <<>>
     ELSE IF exc \in {"KeyError", "ValueError"} /\ connected THEN <<"rollback">>
     ELSE <<>>)
    \o (IF connected THEN <<"close">> ELSE <<>>)

\* The values of a sequence.
Range(s) == { s[i] : i \in 1..Len(s) }

\* with Database.connect() as db: the connection is opened and the body is
\* entered with frame d.
Connect(p, d) ==
    /\ pc[p] \in {"idle", "exited"}
    /\ conn' = "open"
    /\ txn' = store
    /\ raised' = None
    /\ calls' = <<>>
    /\ pc' = [pc EXCEPT ![p] = "entered"]
    /\ df' = [df EXCEPT ![p] = d]
    /\ result' = [result EXCEPT ![p] = NoResult]
    /\ store0' = store
    /\ UNCHANGED <<modelVars, store, account, existing_ids, userSet, repeat, nreads, nwrites,
                   hkey, file, out, filename, detected>>

\* mysql.connector.connect raises: the error is logged and re-raised, and
\* there is no connection to close.
ConnectRaises(p) ==
    /\ pc[p] \in {"idle", "exited"}
    /\ conn' = "none"
    /\ txn' = store
    /\ raised' = "mysql.connector.Error"
    /\ calls' = <<>>
    /\ pc' = [pc EXCEPT ![p] = "exited"]
    /\ df' = [df EXCEPT ![p] = <<>>]
    /\ result' = [result EXCEPT ![p] = NoResult]
    /\ store0' = store
    /\ UNCHANGED <<modelVars, store, account, existing_ids, userSet, repeat, nreads, nwrites,
                   hkey, file, out, filename, detected>>

\* The body's db.upsert_transactions(df): it writes inside the open
\* transaction, or raises ValueError.
BodyUpsert(p) ==
    /\ pc[p] = "entered"
    /\ LET u == Database_upsert_transactions(txn, df[p])
       IN  IF "raises" \in DOMAIN u
           THEN /\ pc' = [pc EXCEPT ![p] = "body_raised"]
                /\ raised' = u.raises
                /\ UNCHANGED <<txn, result>>
           ELSE /\ pc' = [pc EXCEPT ![p] = "body_done"]
                /\ txn' = u.table
                /\ result' = [result EXCEPT ![p] = u.result]
                /\ UNCHANGED raised
    /\ UNCHANGED <<modelVars, conn, calls, store, store0, df, account, existing_ids, userSet,
                   repeat, nreads, nwrites, hkey, file, out, filename, detected>>

\* A later statement of the body raises exc; with a database error the
\* connection may be gone.
BodyRaises(p, exc, lost) ==
    /\ pc[p] = "body_done"
    /\ lost => exc = "mysql.connector.Error"
    /\ pc' = [pc EXCEPT ![p] = "body_raised"]
    /\ raised' = exc
    /\ conn' = IF lost THEN "lost" ELSE conn
    /\ UNCHANGED <<modelVars, txn, calls, store, store0, df, account, existing_ids, result,
                   userSet, repeat, nreads, nwrites, hkey, file, out, filename, detected>>

\* The with-block is left: the rest of Database.connect runs.  A commit
\* makes the transaction's table the stored one; a rollback discards the
\* transaction's writes, and so does the server when the connection is
\* closed or gone with the transaction open; otherwise they stay pending.
Exit(p) ==
    /\ pc[p] \in {"body_done", "body_raised"}
    /\ LET exc == IF pc[p] = "body_done" THEN None ELSE raised
           made == connect_exit(exc, conn = "open")
           discarded == Range(made) \cap {"rollback", "close"} # {} \/ conn = "lost"
       IN  /\ calls' = made
           /\ store' = IF "commit" \in Range(made) THEN txn ELSE store
           /\ txn' = IF "commit" \in Range(made) THEN txn
                     ELSE IF discarded THEN store ELSE txn
           /\ conn' = IF "close" \in Range(made) THEN "closed" ELSE conn
    /\ pc' = [pc EXCEPT ![p] = "exited"]
    /\ UNCHANGED <<modelVars, raised, store0, df, account, existing_ids, result, userSet,
                   repeat, nreads, nwrites, hkey, file, out, filename, detected>>

\* The with-block is left after a body that finished, and conn.commit()
\* raises: nothing is stored, the error is re-raised, the connection closed.
ExitCommitRaises(p) ==
    /\ pc[p] = "body_done"
    /\ calls' = <<"commit", "close">>
    /\ txn' = store
    /\ conn' = "closed"
    /\ raised' = "mysql.connector.Error"
    /\ pc' = [pc EXCEPT ![p] = "exited"]
    /\ UNCHANGED <<modelVars, store, store0, df, account, existing_ids, result, userSet,
                   repeat, nreads, nwrites, hkey, file, out, filename, detected>>

\* with-blocks of Database.connect, one after another.
ConnNext ==
    \/ \E d \in DatabaseFrames : Connect("w1", d)
    \/ ConnectRaises("w1")
    \/ BodyUpsert("w1")
    \/ \E exc \in BodyExceptions, lost \in BOOLEAN : BodyRaises("w1", exc, lost)
    \/ Exit("w1")
    \/ ExitCommitRaises("w1")

ConnSpec == Init /\ [][ConnNext]_vars

\* ------------------------------------------------------------------ claims
\* The classification fields of a stored row.
Classification(row) ==
    [label |-> row.label, category |-> row.category,
     additional_labels |-> row.additional_labels]

\* C1: a row whose label, category or additional_labels a user has saved
\* stays stored with exactly the values the user last saved, whatever
\* imports run before, after or interleaved with the edit.
C1_UserClassificationPreserved ==
    \A id \in DOMAIN userSet :
        /\ id \in DOMAIN store
        /\ Classification(store[id]) = userSet[id]

\* A call whose batch contains a user-edited id has returned.
C1_Witness ==
    \E p \in Procs :
        /\ pc[p] = "returned"
        /\ \E id \in incoming_ids(df[p]) : id \in DOMAIN userSet

\* Worker p finishes a call in this step with a return.
Returns(p) == pc[p] = "queried" /\ pc'[p] = "returned"

\* Number of rows of frame d whose id is (in == TRUE) or is not a key of tbl.
RowsWithId(d, tbl, in) ==
    Cardinality({ i \in 1..Len(d) : (d[i].ID \in DOMAIN tbl) = in })

\* C2: a call that repeats the batch of the caller's previous, returned call
\* returns inserted = 0 and leaves the number of stored rows as it was.
C2_SecondCallInsertsNothing ==
    [][\A p \in Procs :
          /\ (Returns(p) /\ repeat[p]) =>
                /\ result'[p].inserted = 0
                /\ Cardinality(DOMAIN store') = Cardinality(DOMAIN store)
          /\ (pc'[p] = "returned" /\ df'[p] = <<>> /\ repeat'[p]) =>
                /\ result'[p].inserted = 0
                /\ Cardinality(DOMAIN store') = Cardinality(DOMAIN store)]_vars

\* A repeated two-row batch has returned with both rows skipped.
C2_Witness ==
    \E p \in Procs :
        /\ pc[p] = "returned" /\ repeat[p]
        /\ Len(df[p]) = 2
        /\ result[p].inserted = 0 /\ result[p].skipped = 2

\* C3: a call returns inserted = the number of batch rows whose id was not
\* stored, skipped = the number whose id was stored, and
\* total = inserted + skipped = the batch length, none of them negative.
C3_CountsPartitionBatch ==
    [][\A p \in Procs :
          Returns(p) =>
            /\ result'[p].inserted = RowsWithId(df[p], store, FALSE)
            /\ result'[p].skipped = RowsWithId(df[p], store, TRUE)
            /\ result'[p].total = result'[p].inserted + result'[p].skipped
            /\ result'[p].total = Len(df[p])
            /\ result'[p].inserted >= 0 /\ result'[p].skipped >= 0
            /\ result'[p].error = None]_vars

\* A batch of one stored and one new id has returned 1, 1, 2.
C3_Witness ==
    \E p \in Procs :
        /\ pc[p] = "returned"
        /\ Cardinality(incoming_ids(df[p])) = 2
        /\ Cardinality(existing_ids[p]) = 1
        /\ result[p].inserted = 1 /\ result[p].skipped = 1 /\ result[p].total = 2

\* C4: after a call returns, the table holds as many rows as before the
\* call plus the returned inserted count.
C4_StoreGrowsByInserted ==
    [][\A p \in Procs :
          Returns(p) =>
            Cardinality(DOMAIN store') =
                Cardinality(DOMAIN store) + result'[p].inserted]_vars

\* The table after worker p's call and then worker q's call run one after
\* the other on table tbl.
OneAfterAnother(tbl, p, q) ==
    upsert_transactions(upsert_transactions(tbl, df[p], account[p]).table,
                        df[q], account[q]).table

Raced(p) == (incoming_ids(df[p]) \ existing_ids[p]) \cap DOMAIN store

\* C6: a call whose query found an id absent that another writer stored
\* before the call's bulk insert finishes by returning, not by raising, and
\* leaves that writer's row exactly as it was.
C6_RaceResolvesAsPresent ==
    [][\A p \in Procs :
          (pc[p] = "queried" /\ pc'[p] # "queried" /\ Raced(p) # {}) =>
              /\ pc'[p] = "returned"
              /\ result'[p].error = None
              /\ \A id \in Raced(p) :
                    id \in DOMAIN store' /\ store'[id] = store[id]]_vars

\* A call has returned whose query found an id absent that is stored under
\* the other account: the other writer inserted it in between.
C6_Witness ==
    \E p \in Procs :
        /\ pc[p] = "returned"
        /\ \E id \in incoming_ids(df[p]) \ existing_ids[p] :
              /\ id \in DOMAIN store
              /\ store[id].account # account[p]

\* C7: the step that ends an import either leaves the table as it was or
\* adds every new id of the file; a failed import adds nothing, and after a
\* returned one every id of the file is stored.
C7_ImportAllOrNothing ==
    [][\A p \in Procs :
          (pc'[p] # pc[p] /\ pc'[p] # "queried") =>
              LET added == DOMAIN store' \ DOMAIN store
                  fresh == incoming_ids(df'[p]) \ DOMAIN store
              IN  /\ added = {} \/ added = fresh
                  /\ pc'[p] \in {"raised", "rejected"} => store' = store
                  /\ pc'[p] = "returned" => incoming_ids(df'[p]) \subseteq DOMAIN store']_vars

\* An import of two new ids failed at the bulk insert and neither is stored.
C7_Witness ==
    \E p \in Procs :
        /\ pc[p] = "raised" /\ nwrites[p] = 1
        /\ Cardinality(incoming_ids(df[p])) = 2
        /\ incoming_ids(df[p]) \cap DOMAIN store = {}

\* C8: no step removes a stored row or changes its date, concept, amount or
\* account; a row another account imported first stays linked to it.
C8_StoredRowImmutable ==
    [][\A id \in DOMAIN store :
          /\ id \in DOMAIN store'
          /\ store'[id].date = store[id].date
          /\ store'[id].concept = store[id].concept
          /\ store'[id].amount = store[id].amount
          /\ store'[id].account = store[id].account]_vars

\* An import into one account has returned after skipping an id that is
\* stored under the other account.
C8_Witness ==
    \E p \in Procs :
        /\ pc[p] = "returned"
        /\ \E id \in existing_ids[p] : store[id].account # account[p]

\* C9: every row a call adds is stored with label, category and
\* additional_labels None and linked to the account of that call, whatever
\* the frame's classification columns hold.
C9_InsertedRowsUnclassified ==
    [][\A p \in Procs :
          Returns(p) =>
              \A id \in DOMAIN store' \ DOMAIN store :
                  /\ store'[id].label = None
                  /\ store'[id].category = None
                  /\ store'[id].additional_labels = None
                  /\ store'[id].account = account[p]]_vars

\* A frame with filled classification columns has been inserted for the
\* checking account.
C9_Witness ==
    \E p \in Procs :
        /\ pc[p] = "returned" /\ result[p].inserted > 0
        /\ account[p] = "acct-checking"
        /\ \A i \in 1..Len(df[p]) : df[p][i].Label # None
        /\ \E id \in incoming_ids(df[p]) \ existing_ids[p] :
              store[id].account = "acct-checking" /\ store[id].label = None

\* C10: a call with an empty frame returns 0, 0, 0, reads nothing, writes
\* nothing and leaves the table unchanged.
C10_EmptyBatchTouchesNothing ==
    [][\A p \in Procs :
          (pc'[p] = "returned" /\ df'[p] = <<>>) =>
              /\ result'[p] = [inserted |-> 0, skipped |-> 0, total |-> 0, error |-> None]
              /\ nreads'[p] = 0 /\ nwrites'[p] = 0
              /\ (<<pc[p], df[p], account[p]>> # <<pc'[p], df'[p], account'[p]>>)
                    => store' = store]_vars

\* An empty-frame call has returned while the table holds rows.
C10_Witness ==
    \E p \in Procs :
        /\ pc[p] = "returned" /\ df[p] = <<>>
        /\ DOMAIN store # {}

\* process returned a frame.
Parsed == "df" \in DOMAIN out

\* Columns in which two raw rows of one file hold different cells.
DifferingColumns(r1, r2) == { j \in 1..Len(r1) : r1[j] # r2[j] }

\* C11: in every format, two rows of a file that hold the same raw cells
\* get the same id, and two rows whose raw cells differ in exactly one
\* column, a column the clean frame drops included, get different ids.
C11_IdDeterministicAndSensitive ==
    Parsed =>
        \A i, j \in 1..Len(out.df) :
            /\ file.rows[i] = file.rows[j] => out.df[i].ID = out.df[j].ID
            /\ Cardinality(DifferingColumns(file.rows[i], file.rows[j])) = 1
                  => out.df[i].ID # out.df[j].ID

\* The frame read_csv yields for the file, before any derivation.
RawFrame == read_csv(file, ACCOUNT_HANDLERS(hkey).csv_names, ACCOUNT_HANDLERS(hkey).csv_header)

\* C12: the id of every clean row is the digest of the underscore-joined
\* raw cells of its row as read from the file, in the file's column order:
\* neither the derived Amount column nor a value substituted for a blank
\* cell enters the hashed string.
C12_IdFromRawCellsOnly ==
    Parsed =>
        \A i \in 1..Len(out.df) :
            out.df[i].ID = _generate_id(RawFrame.columns, file.rows[i])

\* The raw cell of column c in data row i of the file.
RawCell(i, c) == Cell(RawFrame.columns, file.rows[i], c)

\* C13: for the Capital One checking and savings formats the amount of
\* every clean row is the row's Transaction Amount when its Transaction
\* Type is exactly 'Credit' and the negated Transaction Amount for every
\* other type.
C13_SignByType ==
    (Parsed /\ hkey \in {"co-checking", "co-savings"}) =>
        \A i \in 1..Len(out.df) :
            out.df[i].Amount =
                IF RawCell(i, "Transaction Type") = "Credit"
                THEN RawCell(i, "Transaction Amount")
                ELSE 0 - RawCell(i, "Transaction Amount")

\* A Capital One checking file was normalised whose rows are 45.50 of type
\* Debit and 1152.91 of type Credit: the amounts are -45.50 and 1152.91.
C13_Witness ==
    /\ Parsed /\ hkey = "co-checking" /\ Len(out.df) = 2
    /\ RawCell(1, "Transaction Type") = "Debit" /\ RawCell(1, "Transaction Amount") = 4550
    /\ out.df[1].Amount = -4550
    /\ RawCell(2, "Transaction Type") = "Credit" /\ RawCell(2, "Transaction Amount") = 115291
    /\ out.df[2].Amount = 115291

\* A Credit or Debit cell as a number of cents, a blank cell counting as zero.
BlankAsZero(v) == IF v = NaN THEN 0 ELSE v[1]

\* C14: for the Quicksilver format the amount of every clean row is the
\* row's Credit minus its Debit, a blank cell counting as zero: a row with
\* only a Debit d has amount -d, a row with only a Credit c has amount c,
\* and no amount is missing.
C14_CreditMinusDebit ==
    (Parsed /\ hkey = "co-quicksilver") =>
        \A i \in 1..Len(out.df) :
            LET credit == RawCell(i, "Credit")
                debit == RawCell(i, "Debit")
                amount == out.df[i].Amount
            IN  /\ amount \in Int
                /\ amount = BlankAsZero(credit) - BlankAsZero(debit)
                /\ (credit = NaN /\ debit # NaN) => amount = 0 - debit[1]
                /\ (debit = NaN /\ credit # NaN) => amount = credit[1]

\* A Quicksilver file was normalised whose rows are a purchase (Debit 45.50,
\* Credit blank) and a payment (Credit 1152.91, Debit blank).
C14_Witness ==
    /\ Parsed /\ hkey = "co-quicksilver" /\ Len(out.df) = 2
    /\ RawCell(1, "Credit") = NaN /\ RawCell(1, "Debit") = <<4550>>
    /\ out.df[1].Amount = -4550
    /\ RawCell(2, "Credit") = <<115291>> /\ RawCell(2, "Debit") = NaN
    /\ out.df[2].Amount = 115291

\* The frame the amount derivation of the format yields for the file.
DerivedFrame == _apply_amount_logic(ACCOUNT_HANDLERS(hkey), RawFrame)

\* The derived amount of data row i: its cell in the Amount column.
DerivedAmount(i) == Cell(DerivedFrame.columns, DerivedFrame.rows[i], "Amount")

\* C15: the amount of every clean row is the derived amount of its row in
\* the formats that do not negate and its exact negation in the two formats
\* that do (Amex and Discover), so with direct derivation and no negation
\* the amount cell passes through unchanged.
C15_NegationOnceAfterDerivation ==
    Parsed =>
        \A i \in 1..Len(out.df) :
            /\ out.df[i].Amount =
                  IF hkey \in {"amex-delta", "discover"}
                  THEN 0 - DerivedAmount(i) ELSE DerivedAmount(i)
            /\ hkey \in {"sofi-savings", "sofi-checking", "chase", "wf-checking", "wf-savings"}
                  => out.df[i].Amount = RawCell(i, "Amount")
            /\ hkey \in {"amex-delta", "discover"}
                  => out.df[i].Amount + RawCell(i, "Amount") = 0

\* An Amex file was normalised whose row has the amount 2.45: the clean
\* amount is -2.45.
C15_Witness ==
    /\ Parsed /\ hkey = "amex-delta" /\ Len(out.df) >= 1
    /\ RawCell(1, "Amount") = 245
    /\ out.df[1].Amount = -245

\* Columns a file of the format must have for the handler to read it: the
\* date and concept columns and the columns the amount comes from.
RequiredColumns(h) ==
    {h.col_date, h.col_concept}
    \cup (IF AmountLogicColumns(h) = {} THEN {h.col_amount} ELSE AmountLogicColumns(h))

\* The file is delimited text that lacks a required column.
ColumnAbsent ==
    /\ file.kind = "csv"
    /\ ~(RequiredColumns(ACCOUNT_HANDLERS(hkey)) \subseteq ColumnSet(RawFrame.columns))

\* Data rows of the file whose date cell does not match the format's pattern.
BadDateRows ==
    IF file.kind # "csv" \/ ColumnAbsent THEN {}
    ELSE { i \in 1..Len(file.rows) :
             to_datetime(RawCell(i, ACCOUNT_HANDLERS(hkey).col_date),
                         ACCOUNT_HANDLERS(hkey).date_format) = ValueError }

FailureKind(h, f) ==
    CASE f.kind = "missing" -> "NotFound"
      [] f.kind = "malformed" -> "ParseFailure"
      [] f.kind = "empty" -> "EmptyInput"
      [] f.rows = <<>> -> "EmptyInput"
      [] ~(RequiredColumns(h) \subseteq
             ColumnSet(read_csv(f, h.csv_names, h.csv_header).columns)) -> "SchemaMismatch"
      [] OTHER -> "NoFailure"

\* C17: what process returns tells the failure kinds apart: files that fail
\* in different ways (NotFound, EmptyInput, ParseFailure, SchemaMismatch)
\* never make process return the same value.
C17_FailureKindsDistinguishable ==
    LET h == ACCOUNT_HANDLERS(hkey)
    IN  (out # NotCalled /\ FailureKind(h, file) # "NoFailure") =>
            \A f \in Files(hkey) :
                (FailureKind(h, f) \notin {"NoFailure", FailureKind(h, file)})
                    => process(h, f) # out

\* C18: an import of a file with at least one data row, all of whose ids
\* are stored, ends with a return and never with an exception or a
\* rejection: error is absent, inserted = 0, skipped = total = the number of
\* rows, and the table is left as it was.
C18_AllStoredIsSuccess ==
    [][\A p \in Procs :
          (/\ pc[p] = "queried" /\ pc'[p] # "queried"
           /\ df[p] # <<>>
           /\ incoming_ids(df[p]) \subseteq DOMAIN store) =>
              /\ pc'[p] = "returned"
              /\ result'[p] = [inserted |-> 0, skipped |-> Len(df[p]),
                               total |-> Len(df[p]), error |-> None]
              /\ store' = store]_vars

\* A two-row file whose ids earlier imports of other files had stored has
\* been imported: both rows skipped, no error.
C18_Witness ==
    \E p \in Procs :
        /\ pc[p] = "returned" /\ ~repeat[p]
        /\ Len(df[p]) = 2 /\ Cardinality(incoming_ids(df[p])) = 2
        /\ existing_ids[p] = incoming_ids(df[p])
        /\ nwrites[p] = 0
        /\ result[p] = [inserted |-> 0, skipped |-> 2, total |-> 2, error |-> None]

\* detect_account_type has returned.
Detected == "handler_key" \in DOMAIN detected

\* The detection rules in their listed order, as <<substring, key>>.
ListedRules ==
    << <<"360Checking", "co-checking">>,
       <<"360PerformanceSavings", "co-savings">>,
       <<"transaction_download", "co-quicksilver">>,
       <<"SOFI-Checking", "sofi-checking">>,
       <<"SOFI-Savings", "sofi-savings">>,
       <<"WF-Checking", "wf-checking">>,
       <<"WF-Savings", "wf-savings">>,
       <<"activity", "amex-delta">>,
       <<"Chase", "chase">>,
       <<"Discover", "discover">> >>

\* The rules whose substring occurs, case-sensitively, in the filename.
MatchingRules == { i \in 1..Len(ListedRules) : Contains(ListedRules[i][1], filename) }

C20_NoRuleShadowed ==
    /\ \A i, j \in 1..Len(FILE_DETECTION_MAP) :
          i < j => ~Contains(FILE_DETECTION_MAP[i].substring, FILE_DETECTION_MAP[j].substring)
    /\ Detected =>
          \A k \in 1..Len(FILE_DETECTION_MAP) :
              filename = FILE_DETECTION_MAP[k].substring \o ".csv"
                  => detected.handler_key = FILE_DETECTION_MAP[k].handler_key

\* The file named by the last rule's substring has been detected as the
\* last rule's key.
C20_Witness ==
    /\ Detected
    /\ filename = FILE_DETECTION_MAP[Len(FILE_DETECTION_MAP)].substring \o ".csv"
    /\ detected.handler_key = "discover"

\* The request of worker p was served by import_transactions without an
\* exception.
Served(p) == pc[p] \in {"returned", "rejected"}

\* The counts of a FileImportResult.
CountsOf(r) == [inserted |-> r.inserted, skipped |-> r.skipped, total |-> r.total,
                error |-> r.error]

\* C21: the name of the uploaded file has no influence on an import: the
\* handler that parsed the file is the one registered under the account's
\* handler key, and the same file sent for the same account on the same
\* table under any other name returns the same counts and leaves the same
\* stored rows.
C21_FilenameIsAdvisory ==
    Served("w1") =>
        /\ hkey = handler_key(account["w1"])
        /\ out # NotCalled =>
              hkey \in HandlerKeys /\ out = process(ACCOUNT_HANDLERS(hkey), file)
        /\ \A other \in UploadedNames :
              LET r == import_transactions(store0, account["w1"], file, other)
              IN  /\ r.table = store
                  /\ CountsOf(r.result) = CountsOf(result["w1"])

\* A SoFi statement uploaded for the SoFi Savings account under a name that
\* is detected as Chase was parsed and stored.
C21_Witness ==
    /\ pc["w1"] = "returned"
    /\ account["w1"] = "acct-savings"
    /\ detect_account_type(filename) = "chase"
    /\ result["w1"].inserted >= 1
    /\ store # store0

\* The latest request was for an account whose handler key is not a key of
\* ACCOUNT_HANDLERS.
MissingHandler(p) == pc[p] # "idle" /\ handler_key(account[p]) \notin HandlerKeys

\* C22: an import for an account whose handler key is not registered is
\* rejected with the error naming the missing handler, a text no other
\* outcome carries, with zero counts, without the file being parsed and
\* without a change to the store; an import that follows it for an account
\* with a registered key and a file with valid rows succeeds and its rows
\* are stored.
C22_MissingHandlerRejected ==
    [][ /\ MissingHandler("w1")' =>
              /\ pc'["w1"] = "rejected"
              /\ result'["w1"].error = NoHandlerFound(handler_key(account'["w1"]))
              /\ result'["w1"].inserted = 0
              /\ result'["w1"].skipped = 0
              /\ result'["w1"].total = 0
              /\ out' = NotCalled
              /\ store' = store
        /\ ~MissingHandler("w1")' =>
              result'["w1"].error \notin { NoHandlerFound(k) : k \in {"Other"} \cup HandlerKeys }
        /\ (MissingHandler("w1") /\ pc'["w1"] = "returned") =>
              /\ result'["w1"].error = None
              /\ incoming_ids(df'["w1"]) \subseteq DOMAIN store'
              /\ result'["w1"].total = Len(df'["w1"])
      ]_vars

\* With rows already stored, a file was sent for the account whose key is
\* 'Other' and was rejected for its missing handler.
C22_Witness ==
    /\ MissingHandler("w1")
    /\ result["w1"].error = "No handler found for account type: Other"
    /\ file \in UploadedFiles \ {ZeroByteFile, MalformedFile}
    /\ store0 # [k \in {} |-> None]
    /\ store = store0

\* C23: every stored account references one account type, and the handler
\* key of that type is a key of ACCOUNT_HANDLERS.
C23_StoredKeysResolve ==
    \A a \in DOMAIN accounts :
        /\ accounts[a] \in DOMAIN account_types
        /\ Account_handler_key(a) \in HandlerKeys

\* C24: an import result that carries an error carries the name of the
\* uploaded file and the cause as text, its counts are all zero, and the
\* store is as it was before the request, whether the handler was missing,
\* the file had no valid rows or an exception was raised while the upload
\* was read or the store was queried or written.
C24_ErrorResultLeavesStore ==
    (pc["w1"] # "idle" /\ result["w1"].error # None) =>
        /\ pc["w1"] \in {"rejected", "raised"}
        /\ result["w1"].filename = filename
        /\ result["w1"].error \in
              {NoHandlerFound(hkey), "File produced no valid transactions.",
               "UploadInterrupted", "StorageUnavailable"}
        /\ result["w1"].inserted = 0
        /\ result["w1"].skipped = 0
        /\ result["w1"].total = 0
        /\ store = store0

\* With a row already stored, the import of a parsed file with a row that
\* is not stored ended in an exception.
C24_Witness ==
    /\ pc["w1"] = "raised"
    /\ result["w1"].error = "StorageUnavailable"
    /\ store0 # [k \in {} |-> None]
    /\ \E i \in 1..Len(df["w1"]) : df["w1"][i].ID \notin DOMAIN store0

\* The step in which upsert_transactions of worker p returns.
UpsertReturns(p) ==
    /\ pc'[p] = "returned"
    /\ \/ pc[p] = "queried"
       \/ pc[p] # "queried" /\ df'[p] = <<>> /\ userSet' = userSet

\* C25: when upsert_transactions returns, the ids in the store are those
\* stored before together with the ids of the frame: no other id is added,
\* none is removed, and every row stored before has all its fields as they
\* were.
C25_StoreGrowsByFrameIds ==
    [][ UpsertReturns("w1") =>
            /\ DOMAIN store' = DOMAIN store \cup incoming_ids(df'["w1"])
            /\ \A k \in DOMAIN store : store'[k] = store[k]
      ]_vars

\* A call returned that stored a new row and skipped a row a user had
\* classified.
C25_Witness ==
    /\ pc["w1"] = "returned"
    /\ result["w1"].inserted >= 1
    /\ result["w1"].skipped >= 1
    /\ \E k \in DOMAIN userSet \cap incoming_ids(df["w1"]) :
          Classification(store[k]) = userSet[k] /\ userSet[k].label # None

\* C26: once the concurrent calls have returned, the inserted counts they
\* returned add up to the number of rows the store has gained.
C26_InsertedSumsToGrowth ==
    (\A p \in Procs : pc[p] = "returned") =>
        result["w1"].inserted + result["w2"].inserted
            = Cardinality(DOMAIN store) - Cardinality(DOMAIN store0)

\* The step in which a call of worker p ends, by returning or by raising.
CallEnds(p) ==
    \/ pc[p] = "queried" /\ pc'[p] \in {"returned", "raised"}
    \/ pc[p] # "queried" /\ pc'[p] = "raised" /\ nreads'[p] = 1 /\ userSet' = userSet
    \/ pc[p] # "queried" /\ pc'[p] = "returned" /\ df'[p] = <<>> /\ userSet' = userSet

\* Reads and writes of one call are ordered and bounded: the store is
\* written only by a call that has made its one read, at most once, and not
\* at all when the membership query returned every incoming id.
OneReadThenAtMostOneWrite(p) ==
    /\ nreads'[p] = 1
    /\ nwrites'[p] <= 1
    /\ store' # store => pc[p] = "queried" /\ nreads[p] = 1 /\ nwrites[p] = 0
    /\ nwrites'[p] = 1 => pc[p] = "queried" /\ nreads[p] = 1 /\ nwrites[p] = 0
    /\ incoming_ids(df'[p]) \subseteq existing_ids'[p] => nwrites'[p] = 0 /\ store' = store

\* C30 as stated: every call of upsert_transactions reads the store exactly
\* once, before any write, writes at most once after that read, and writes
\* nothing when every incoming id is already stored.
C30_EveryCallReadsOnce ==
    [][ CallEnds("w1") => OneReadThenAtMostOneWrite("w1") ]_vars

\* C30, amended: every call of upsert_transactions with a non-empty frame
\* reads the store exactly once, before any write, writes at most once
\* after that read, and writes nothing when every incoming id is already
\* stored.
C30_NonEmptyCallReadsOnce ==
    [][ (CallEnds("w1") /\ df'["w1"] # <<>>) => OneReadThenAtMostOneWrite("w1") ]_vars

\* A call with a two-row frame, one row of it stored already, has returned
\* after one read and one write.
C30_Witness ==
    /\ pc["w1"] = "returned"
    /\ Len(df["w1"]) = 2
    /\ Cardinality(existing_ids["w1"]) = 1
    /\ nreads["w1"] = 1
    /\ nwrites["w1"] = 1

\* C29: the rows of a file that differ in some raw cell get different ids,
\* also when cells hold underscores: a batch of pairwise different raw rows
\* gets pairwise different ids.
C29_DifferentRowsDifferentIds ==
    Parsed =>
        \A i, j \in 1..Len(out.df) :
            file.rows[i] # file.rows[j] => out.df[i].ID # out.df[j].ID

\* The step in which worker p leaves the with-block of Database.connect
\* after its body has finished or raised.
LeavesBlock(p) == pc[p] \in {"body_done", "body_raised"} /\ pc'[p] = "exited"

FieldsOf(row) ==
    [date |-> row.date, concept |-> row.concept, amount |-> row.amount,
     label |-> row.label, category |-> row.category,
     additional_labels |-> row.additional_labels]

\* C28: for the same stored table and the same frame, Database.upsert_transactions
\* and the Django upsert_transactions leave the same ids with the same field
\* values and return the same inserted, skipped and total.
C28_UpsertsAgree ==
    pc["w1"] = "body_done" =>
        LET u == upsert_transactions(store, df["w1"], "acct-savings")
        IN  /\ DOMAIN txn = DOMAIN u.table
            /\ \A k \in DOMAIN txn : FieldsOf(txn[k]) = FieldsOf(u.table[k])
            /\ result["w1"].inserted = u.result.inserted
            /\ result["w1"].skipped = u.result.skipped
            /\ result["w1"].total = u.result.total
====
